---- MODULE Spec2Model ----
(***************************************************************************)
(* The Binance API v3 HTTP client (src/src/http_api_v3/mod.rs): client     *)
(* construction with clock-offset calibration, the unsigned and signed     *)
(* endpoint methods, the two executors and the signer.                     *)
(*                                                                         *)
(* Texts (URLs, query strings, keys, response bodies) are TLA+ strings,    *)
(* taken apart character by character with Len and SubSeq.                 *)
(***************************************************************************)
EXTENDS Integers, Sequences, FiniteSets

VARIABLES ctor, clients, calls

vars == <<ctor, clients, calls>>

(***************************************************************************)
(* Bounds of the model.                                                    *)
(***************************************************************************)
\* The measured round trip of the calibration call ranges over 0..MaxElapsed ms.
MaxElapsed == 2
\* The caller clones the constructed client at most MaxClones times.
MaxClones == 1
\* Number of callers that share the client in SpecShared.
NThreads == 2

(***************************************************************************)
(* Text helpers.                                                           *)
(***************************************************************************)
Char(s, i) == SubSeq(s, i, i)

Drop(s, n) == SubSeq(s, n + 1, Len(s))

Take(s, n) == SubSeq(s, 1, n)

StartsWith(s, p) == Len(s) >= Len(p) /\ Take(s, Len(p)) = p

EndsWith(s, p) == Len(s) >= Len(p) /\ Drop(s, Len(s) - Len(p)) = p

\* The least and the greatest member of a set of positions, 0 when it is empty.
Min0(S) == IF S = {} THEN 0 ELSE CHOOSE i \in S : \A j \in S : i <= j

Max0(S) == IF S = {} THEN 0 ELSE CHOOSE i \in S : \A j \in S : i >= j

\* Position of the first occurrence of the text p in s, 0 when there is none.
Find(s, p) == Min0({i \in 1..(Len(s) - Len(p) + 1) : SubSeq(s, i, i + Len(p) - 1) = p})

\* Position of the last occurrence of the text p in s, 0 when there is none.
FindLast(s, p) == Max0({i \in 1..(Len(s) - Len(p) + 1) : SubSeq(s, i, i + Len(p) - 1) = p})

\* Position of the first character of s that belongs to the set cs, 0 when none.
FindAny(s, cs) == Min0({i \in 1..Len(s) : Char(s, i) \in cs})

\* The parts of s around position i: before it, after it, and from it on;
\* with i = 0 (no such position) all of s lies before it.
Before(s, i) == IF i = 0 THEN s ELSE Take(s, i - 1)

After(s, i) == IF i = 0 THEN "" ELSE Drop(s, i)

From(s, i) == IF i = 0 THEN "" ELSE Drop(s, i - 1)

\* The printable ASCII characters in code order, from 32 (space) to 95 (_)
\* and from 97 (a) to 126 (~).
PrintableLow ==
    " !\"#$%&'(" \o ")*+,-./0123456789:;<=>?@ABCDEFGHIJKLMNOPQRSTUVWXYZ[\\]^_"

PrintableHigh == "abcdefghijklmnopqrstuvwxyz{|}~"

\* The byte of a one-character text (as_bytes of ASCII text). The only
\* character used outside the printable range is the line feed.
ByteTable ==
    [c \in {Char(PrintableLow, i) : i \in 1..Len(PrintableLow)}
             \cup {Char(PrintableHigh, i) : i \in 1..Len(PrintableHigh)} |->
        IF Find(PrintableLow, c) > 0 THEN Find(PrintableLow, c) + 31
        ELSE Find(PrintableHigh, c) + 96]

Byte(c) == IF c \in DOMAIN ByteTable THEN ByteTable[c] ELSE 10

IsPrintable(c) == c \in DOMAIN ByteTable

Digits == "0123456789"

IsDigit(c) == Len(c) = 1 /\ Find(Digits, c) > 0

IsNumber(s) == Len(s) > 0 /\ \A i \in 1..Len(s) : IsDigit(Char(s, i))

RECURSIVE NatToString(_)
NatToString(n) ==
    IF n < 10 THEN Char(Digits, n + 1)
    ELSE NatToString(n \div 10) \o Char(Digits, (n % 10) + 1)

\* Display of an i64: decimal digits, a leading minus sign for negatives.
I64ToString(n) == IF n < 0 THEN "-" \o NatToString(0 - n) ELSE NatToString(n)

RECURSIVE ParseNat(_)
ParseNat(s) ==
    IF Len(s) = 0 THEN 0
    ELSE 10 * ParseNat(Take(s, Len(s) - 1)) + (Find(Digits, Char(s, Len(s))) - 1)

IsInteger(s) == IF StartsWith(s, "-") THEN IsNumber(Drop(s, 1)) ELSE IsNumber(s)

ParseInt(s) == IF StartsWith(s, "-") THEN 0 - ParseNat(Drop(s, 1)) ELSE ParseNat(s)

(***************************************************************************)
(* Option<String>.                                                         *)
(***************************************************************************)
None == <<>>

Some(v) == <<v>>

IsSome(o) == Len(o) = 1

Unwrap(o) == o[1]

(***************************************************************************)
(* Url::parse of the url crate, for the https scheme: the authority runs   *)
(* up to the first "/", "?" or "#"; a port must be a number; the host must *)
(* not be empty nor hold a forbidden host character; an empty path is "/". *)
(***************************************************************************)
ForbiddenHostChars == {" ", "<", ">", "@", "[", "]", "^", "|", "%", "\\", "\n"}

UrlFailed == [ok |-> FALSE, host |-> "", port |-> "", path |-> "", query |-> None]

UrlResult(host, port, path, q, nofrag) ==
    IF \/ host = ""
       \/ FindAny(host, ForbiddenHostChars) > 0
       \/ (port # "" /\ ~IsNumber(port))
    THEN UrlFailed
    ELSE [ok    |-> TRUE,
          host  |-> host,
          port  |-> port,
          path  |-> IF path = "" THEN "/" ELSE path,
          query |-> IF q = 0 THEN None ELSE Some(Drop(nofrag, q))]

UrlPathQuery(host, port, nofrag) ==
    UrlResult(host, port, Before(nofrag, Find(nofrag, "?")), Find(nofrag, "?"), nofrag)

UrlHostPort(authority, tail) ==
    UrlPathQuery(Before(authority, Find(authority, ":")),
                 After(authority, Find(authority, ":")),
                 Before(tail, Find(tail, "#")))

UrlAuthority(rest) ==
    UrlHostPort(Before(rest, FindAny(rest, {"/", "?", "#"})),
                From(rest, FindAny(rest, {"/", "?", "#"})))

UrlParse(url) ==
    IF ~StartsWith(url, "https://") THEN UrlFailed
    ELSE UrlAuthority(Drop(url, Len("https://")))

(***************************************************************************)
(* The signer. HMAC-SHA256 of the hmac and sha2 crates is represented by a *)
(* keyed digest of the same shape: 32 bytes, a deterministic function of   *)
(* the key bytes and the message bytes.  hex::encode is as in the crate.   *)
(***************************************************************************)
DigestLen == 32

RECURSIVE Absorb(_, _, _)
Absorb(h, s, i) ==
    IF i > Len(s) THEN h
    ELSE Absorb((h * 31 + Byte(Char(s, i)) + i) % 65521, s, i + 1)

HmacMix(inner, outer) ==
    [i \in 1..DigestLen |-> ((outer + i) * (inner + 2 * i + 1)) % 256]

HmacOuter(key, inner) == HmacMix(inner, Absorb(inner, key, 1))

HmacSha256(key, message) == HmacOuter(key, Absorb(Absorb(7, key, 1), message, 1))

HexDigits == "0123456789abcdef"

RECURSIVE HexEncodeFrom(_, _)
HexEncodeFrom(bytes, i) ==
    IF i > Len(bytes) THEN ""
    ELSE Char(HexDigits, (bytes[i] \div 16) + 1)
           \o Char(HexDigits, (bytes[i] % 16) + 1)
           \o HexEncodeFrom(bytes, i + 1)

HexEncode(bytes) == HexEncodeFrom(bytes, 1)

signature(params, secret_key) == HexEncode(HmacSha256(secret_key, params))

(***************************************************************************)
(* The response envelope.  serde_json::from_str is represented on flat     *)
(* JSON documents: null, the empty array, and objects whose members are    *)
(* integers or strings; any other text is not valid JSON here.             *)
(***************************************************************************)
RECURSIVE Split(_, _)
SplitAt(s, sep, i) ==
    IF i = 0 THEN <<s>>
    ELSE <<Take(s, i - 1)>> \o Split(Drop(s, i + Len(sep) - 1), sep)

Split(s, sep) == SplitAt(s, sep, Find(s, sep))

IsQuoted(s) == Len(s) >= 2 /\ StartsWith(s, "\"") /\ EndsWith(s, "\"")
                 /\ Find(SubSeq(s, 2, Len(s) - 1), "\"") = 0

Unquote(s) == SubSeq(s, 2, Len(s) - 1)

NoMember == [ok |-> FALSE, key |-> "", type |-> "", text |-> ""]

JsonKeyValue(colon, key, val) ==
    IF colon = 0 \/ ~IsQuoted(key) THEN NoMember
    ELSE IF IsInteger(val) THEN [ok |-> TRUE, key |-> Unquote(key), type |-> "int", text |-> val]
    ELSE IF IsQuoted(val) THEN [ok |-> TRUE, key |-> Unquote(key), type |-> "str", text |-> Unquote(val)]
    ELSE NoMember

JsonMember(text) ==
    JsonKeyValue(Find(text, ":"), Before(text, Find(text, ":")), After(text, Find(text, ":")))

JsonInvalid == [ok |-> FALSE, kind |-> "invalid", members |-> <<>>]

JsonObject(members) ==
    IF \A i \in 1..Len(members) : members[i].ok
    THEN [ok |-> TRUE, kind |-> "object", members |-> members]
    ELSE JsonInvalid

JsonMembers(parts) == JsonObject([i \in 1..Len(parts) |-> JsonMember(parts[i])])

JsonParse(raw) ==
    IF raw = "null" THEN [ok |-> TRUE, kind |-> "null", members |-> <<>>]
    ELSE IF raw = "[]" THEN [ok |-> TRUE, kind |-> "array", members |-> <<>>]
    ELSE IF raw = "{}" THEN [ok |-> TRUE, kind |-> "object", members |-> <<>>]
    ELSE IF Len(raw) > 2 /\ StartsWith(raw, "{") /\ EndsWith(raw, "}")
    THEN JsonMembers(Split(SubSeq(raw, 2, Len(raw) - 1), ","))
    ELSE JsonInvalid

HasMember(json, key, type) ==
    /\ json.kind = "object"
    /\ \E i \in 1..Len(json.members) :
          json.members[i].key = key /\ json.members[i].type = type

MemberText(json, key) ==
    json.members[CHOOSE i \in 1..Len(json.members) : json.members[i].key = key].text

\* The payload types T of the endpoint methods: "Unit" is (), "Time" is
\* TimeGetResponse (server_time), "List" is a Vec response such as
\* Vec<DepthTicker>, "Object" is a struct response with required fields,
\* such as the order result, represented by its first required field symbol.
PayloadTypes == {"Unit", "Time", "List", "Object"}

MatchesSuccess(T, json) ==
    /\ json.ok
    /\ CASE T = "Unit"   -> json.kind = "null" \/ (json.kind = "object" /\ json.members = <<>>)
         [] T = "Time"   -> HasMember(json, "serverTime", "int")
         [] T = "List"   -> json.kind = "array"
         [] T = "Object" -> HasMember(json, "symbol", "str")

MatchesError(json) ==
    json.ok /\ HasMember(json, "code", "int") /\ HasMember(json, "msg", "str")

Payload(T, json) ==
    CASE T = "Unit"   -> [type |-> "Unit"]
      [] T = "Time"   -> [type |-> "Time", server_time |-> ParseInt(MemberText(json, "serverTime"))]
      [] T = "List"   -> [type |-> "List", items |-> <<>>]
      [] T = "Object" -> [type |-> "Object", symbol |-> MemberText(json, "symbol")]

\* serde_json::from_str::<Response<T>>: the success arm is tried first, then
\* the error arm; a document that fits neither arm is a parse error.
ResponseOfJson(T, json) ==
    IF MatchesSuccess(T, json) THEN [arm |-> "Ok", response |-> Payload(T, json)]
    ELSE IF MatchesError(json)
    THEN [arm |-> "Error",
          response |-> [code |-> ParseInt(MemberText(json, "code")),
                        msg  |-> MemberText(json, "msg")]]
    ELSE [arm |-> "Err", response |-> <<>>]

ResponseFromStr(T, raw) == ResponseOfJson(T, JsonParse(raw))

(***************************************************************************)
(* The client.                                                             *)
(***************************************************************************)
BASE_URL == "https://api.binance.com"

REQUEST_TIMESTAMP_OFFSET == 1000

\* The struct Client; the transport handle `inner` has no state of its own.
Client(api_key, secret_key, timestamp_offset) ==
    [api_key |-> api_key, secret_key |-> secret_key, timestamp_offset |-> timestamp_offset]

\* Result<T, Error>: tag is "Ok" or the Error variant, value is what it carries.
Result(tag, value) == [tag |-> tag, value |-> value]

NoResult == Result("none", <<>>)

\* What the first half of a call leaves behind: either the one request it
\* handed to the transport, or the error it returned without sending.
Issued(exec, T, request) ==
    [issued |-> TRUE, exec |-> exec, T |-> T, request |-> <<request>>, result |-> NoResult]

Failed(exec, T, result) ==
    [issued |-> FALSE, exec |-> exec, T |-> T, request |-> <<>>, result |-> result]

\* HeaderValue::try_from(String): visible ASCII and tab only.
HeaderValueValid(v) == \A i \in 1..Len(v) : IsPrintable(Char(v, i)) \/ Char(v, i) = "\t"

\* execute, up to the point where the request is handed to the transport.
execute_url(method, full, parsed, T) ==
    IF ~parsed.ok THEN Failed("execute", T, Result("UrlParsing", full))
    ELSE Issued("execute", T, [method |-> method, url |-> parsed, api_key |-> None])

execute(self, method, url, T) ==
    execute_url(method, BASE_URL \o url, UrlParse(BASE_URL \o url), T)

\* The match on the parsed envelope that ends execute and execute_signed.
MatchResponse(response, body) ==
    CASE response.arm = "Err"   -> Result("ResponseParsing", body)
      [] response.arm = "Ok"    -> Result("Ok", response.response)
      [] response.arm = "Error" -> Result("ResponseError", response.response)

\* Faulty variant of execute_reply: a status of 400 or more is an error of
\* the transport.
execute_reply_status_checked(T, reply) ==
    IF reply.fault = "exec" \/ reply.status >= 400 THEN Result("RequestExecution", <<>>)
    ELSE IF reply.fault = "read" THEN Result("ResponseReading", <<>>)
    ELSE MatchResponse(ResponseFromStr(T, reply.body), reply.body)

\* Faulty variant of execute_reply: a body that cannot be read is reported
\* as a failure of the transport.
execute_reply_collapsed(T, reply) ==
    IF reply.fault \in {"exec", "read"} THEN Result("RequestExecution", <<>>)
    ELSE MatchResponse(ResponseFromStr(T, reply.body), reply.body)

\* execute, from the transport's reply on.
execute_reply(T, reply) ==
    IF reply.fault = "exec" THEN Result("RequestExecution", <<>>)
    ELSE IF reply.fault = "read" THEN Result("ResponseReading", <<>>)
    ELSE MatchResponse(ResponseFromStr(T, reply.body), reply.body)

\* execute_signed, up to the point where the request is handed to the transport.
execute_signed_url(api_key, method, full, parsed, T) ==
    IF ~parsed.ok THEN Failed("execute_signed", T, Result("UrlParsing", full))
    ELSE IF ~HeaderValueValid(api_key)
    THEN Failed("execute_signed", T, Result("RequestBuilding", <<>>))
    ELSE Issued("execute_signed", T,
                [method |-> method, url |-> parsed, api_key |-> Some(api_key)])

\* Faulty variant of execute_signed: a missing API key is not an error, the
\* request goes out with an empty header value.
execute_signed_key_optional(self, method, url, T) ==
    execute_signed_url(IF IsSome(self.api_key) THEN Unwrap(self.api_key) ELSE "",
                       method, BASE_URL \o url, UrlParse(BASE_URL \o url), T)

execute_signed(self, method, url, T) ==
    IF ~IsSome(self.api_key)
    THEN Failed("execute_signed", T, Result("AuthorizationKeysMissing", <<>>))
    ELSE execute_signed_url(Unwrap(self.api_key), method, BASE_URL \o url,
                            UrlParse(BASE_URL \o url), T)

\* execute_signed, from the transport's reply on.
execute_signed_reply(T, reply) ==
    IF reply.fault = "exec" THEN Result("RequestExecution", <<>>)
    ELSE IF reply.fault = "read" THEN Result("ResponseReading", <<>>)
    ELSE MatchResponse(ResponseFromStr(T, reply.body), reply.body)

\* to_string of the request types: key=value pairs in a fixed order.
QueryToString(type, request) ==
    CASE type = "AccountGetQuery" -> "timestamp=" \o I64ToString(request.timestamp)
      [] type \in {"OpenOrdersGetQuery", "OpenOrdersDeleteQuery", "OrderGetQuery",
                   "OrderPostQuery", "OrderDeleteQuery"}
                                  -> "symbol=" \o request.symbol
                                       \o "&timestamp=" \o I64ToString(request.timestamp)
      [] type \in {"KlinesGetQuery", "DepthGetQuery"}
                                  -> "symbol=" \o request.symbol

ping(self) == execute(self, "GET", "/api/v3/ping", "Unit")

time(self) == execute(self, "GET", "/api/v3/time", "Time")

exchange_info(self) == execute(self, "GET", "/api/v3/exchangeInfo", "Object")

klines(self, request) ==
    execute(self, "GET", "/api/v3/klines?" \o QueryToString("KlinesGetQuery", request), "List")

depth(self, request) ==
    execute(self, "GET", "/api/v3/depth?" \o QueryToString("DepthGetQuery", request), "Object")

depth_ticker(self) == execute(self, "GET", "api/v3/ticker/bookTicker", "List")

\* params += "&signature=" + signature(params, secret_key)
Sign(params, secret_key) == params \o "&signature=" \o signature(params, secret_key)

\* Faulty variant of Corrected: the offset is added.
Corrected_added(self, request) == [request EXCEPT !.timestamp = @ + self.timestamp_offset]

\* request.timestamp -= self.timestamp_offset
Corrected(self, request) == [request EXCEPT !.timestamp = @ - self.timestamp_offset]

account_get(self, request) ==
    IF ~IsSome(self.secret_key)
    THEN Failed("none", "Object", Result("AuthorizationKeysMissing", <<>>))
    ELSE execute_signed(self, "GET",
             "/api/v3/account?" \o Sign(QueryToString("AccountGetQuery", Corrected(self, request)),
                             Unwrap(self.secret_key)),
             "Object")

open_orders_get(self, request) ==
    IF ~IsSome(self.secret_key)
    THEN Failed("none", "List", Result("AuthorizationKeysMissing", <<>>))
    ELSE execute_signed(self, "GET",
             "/api/v3/openOrders?" \o Sign(QueryToString("OpenOrdersGetQuery", Corrected(self, request)),
                             Unwrap(self.secret_key)),
             "List")

open_orders_delete(self, request) ==
    IF ~IsSome(self.secret_key)
    THEN Failed("none", "List", Result("AuthorizationKeysMissing", <<>>))
    ELSE execute_signed(self, "DELETE",
             "/api/v3/openOrders?" \o Sign(QueryToString("OpenOrdersDeleteQuery", Corrected(self, request)),
                             Unwrap(self.secret_key)),
             "List")

order_get(self, request) ==
    IF ~IsSome(self.secret_key)
    THEN Failed("none", "Object", Result("AuthorizationKeysMissing", <<>>))
    ELSE execute_signed(self, "GET",
             "/api/v3/order?" \o Sign(QueryToString("OrderGetQuery", Corrected(self, request)),
                             Unwrap(self.secret_key)),
             "Object")

order_post(self, request) ==
    IF ~IsSome(self.secret_key)
    THEN Failed("none", "Object", Result("AuthorizationKeysMissing", <<>>))
    ELSE execute_signed(self, "POST",
             "/api/v3/order?" \o Sign(QueryToString("OrderPostQuery", Corrected(self, request)),
                             Unwrap(self.secret_key)),
             "Object")

order_delete(self, request) ==
    IF ~IsSome(self.secret_key)
    THEN Failed("none", "Object", Result("AuthorizationKeysMissing", <<>>))
    ELSE execute_signed(self, "DELETE",
             "/api/v3/order?" \o Sign(QueryToString("OrderDeleteQuery", Corrected(self, request)),
                             Unwrap(self.secret_key)),
             "Object")

order_post_test(self, request) ==
    IF ~IsSome(self.secret_key)
    THEN Failed("none", "Object", Result("AuthorizationKeysMissing", <<>>))
    ELSE execute_signed(self, "POST",
             "/api/v3/order/test?" \o Sign(QueryToString("OrderPostQuery", Corrected(self, request)),
                             Unwrap(self.secret_key)),
             "Object")

\* Faulty variant of timestamp_offset: the whole round trip is subtracted.
timestamp_offset_full_elapsed(system_time, time_result, elapsed) ==
    IF time_result.tag # "Ok" THEN [panic |-> TRUE, offset |-> 0]
    ELSE [panic |-> FALSE,
          offset |-> (system_time - (time_result.value.server_time - elapsed))
                       + REQUEST_TIMESTAMP_OFFSET]

\* Faulty variant of timestamp_offset: a failed time() call counts as
\* server time 0 instead of a panic.
timestamp_offset_default_on_error(system_time, time_result, elapsed) ==
    [panic |-> FALSE,
     offset |-> (system_time
                   - ((IF time_result.tag = "Ok" THEN time_result.value.server_time ELSE 0)
                        - (elapsed \div 2)))
                  + REQUEST_TIMESTAMP_OFFSET]

\* timestamp_offset, once the time() call it makes has returned: system_time
\* was read before the call, elapsed is the round trip in milliseconds.
timestamp_offset(system_time, time_result, elapsed) ==
    IF time_result.tag # "Ok" THEN [panic |-> TRUE, offset |-> 0]
    ELSE [panic |-> FALSE,
          offset |-> (system_time - (time_result.value.server_time - (elapsed \div 2)))
                       + REQUEST_TIMESTAMP_OFFSET]

(***************************************************************************)
(* The environment: the local clock, the caller's arguments and what the   *)
(* transport brings back.                                                  *)
(***************************************************************************)
\* Utc::now() when a construction starts.
LocalTimes == {5000}

\* The timestamp a caller puts in a signed request.
Timestamps == {5000, 5003}

ApiKeys == {"key", "bad\nkey"}

SecretKeys == {"secret"}

Bodies ==
    { "{}",
      "[]",
      "{\"serverTime\":4000}",
      "{\"serverTime\":7001}",
      "{\"symbol\":\"BTC\"}",
      "{\"code\":-1,\"msg\":\"boom\"}",
      "{\"symbol\":\"BTC\",\"code\":-1021,\"msg\":\"late\"}",
      "{\"foo\":1}",
      "<html>" }

Statuses == {200, 400}

NoReply == [fault |-> "pending", status |-> 0, body |-> ""]

\* The transport fails ("exec"), the body cannot be read ("read"), or a
\* response with a status and a body text arrives.
Replies ==
    { [fault |-> "exec", status |-> 0, body |-> ""],
      [fault |-> "read", status |-> 200, body |-> ""] }
    \cup { [fault |-> "none", status |-> st, body |-> b] : st \in Statuses, b \in Bodies }

SharedReplies ==
    { [fault |-> "exec", status |-> 0, body |-> ""],
      [fault |-> "none", status |-> 200, body |-> "{\"serverTime\":4000}"],
      [fault |-> "none", status |-> 400, body |-> "{\"code\":-1,\"msg\":\"boom\"}"] }

UnsignedEndpoints == {"ping", "time", "exchange_info", "klines", "depth", "depth_ticker"}

SignedEndpoints ==
    {"account_get", "open_orders_get", "open_orders_delete", "order_get", "order_post",
     "order_delete", "order_post_test"}

\* The endpoint methods, and execute itself, which is public.
Endpoints == UnsignedEndpoints \cup SignedEndpoints \cup {"execute"}

SharedEndpoints == {"time", "account_get", "order_post"}

NoArgs == [symbol |-> "", timestamp |-> 0, method |-> "", url |-> ""]

ArgsOf(ep) ==
    IF ep \in SignedEndpoints
    THEN {[NoArgs EXCEPT !.symbol = "BTC", !.timestamp = ts] : ts \in Timestamps}
    ELSE IF ep \in {"klines", "depth"} THEN {[NoArgs EXCEPT !.symbol = "BTC"]}
    ELSE IF ep = "execute"
    THEN {[NoArgs EXCEPT !.method = "GET", !.url = u] : u \in {"/api/v3/ping", ":x/api/v3/ping"}}
    ELSE {NoArgs}

Invoke(ep, self, args) ==
    CASE ep = "ping"               -> ping(self)
      [] ep = "time"               -> time(self)
      [] ep = "exchange_info"      -> exchange_info(self)
      [] ep = "klines"             -> klines(self, args)
      [] ep = "depth"              -> depth(self, args)
      [] ep = "depth_ticker"       -> depth_ticker(self)
      [] ep = "account_get"        -> account_get(self, args)
      [] ep = "open_orders_get"    -> open_orders_get(self, args)
      [] ep = "open_orders_delete" -> open_orders_delete(self, args)
      [] ep = "order_get"          -> order_get(self, args)
      [] ep = "order_post"         -> order_post(self, args)
      [] ep = "order_delete"       -> order_delete(self, args)
      [] ep = "order_post_test"    -> order_post_test(self, args)
      [] ep = "execute"            -> execute(self, args.method, args.url, "Unit")

(***************************************************************************)
(* State.                                                                  *)
(*   ctor     the frame of the constructor call: where it is, the client   *)
(*            it is building, system_time, the request its time() call     *)
(*            sent, the round trip and the result of that call             *)
(*   clients  the client values the caller holds: the constructed one      *)
(*            first, its clones after it                                   *)
(*   calls    per caller thread, the endpoint call it is in                *)
(***************************************************************************)
NoCtor ==
    [pc |-> "none", fn |-> "", self |-> Client(None, None, 0), system_time |-> 0,
     calibrations |-> 0, request |-> <<>>, elapsed |-> 0, time_result |-> NoResult]

Idle ==
    [pc |-> "idle", ep |-> "", c |-> 0, args |-> NoArgs, seen |-> Client(None, None, 0),
     exec |-> "none", T |-> "Unit", request |-> <<>>, reply |-> NoReply, result |-> NoResult]

Init ==
    /\ ctor = NoCtor
    /\ clients = <<>>
    /\ calls = [t \in 1..1 |-> Idle]

InitShared ==
    /\ ctor = NoCtor
    /\ clients = <<>>
    /\ calls = [t \in 1..NThreads |-> Idle]

\* The constructor builds the struct with offset 0 and enters
\* timestamp_offset: the clock is read and the time() request goes out.
construct_sent(fn, self, now, prep) ==
    /\ ctor.pc = "none"
    /\ ctor' = [pc |-> IF prep.issued THEN "time" ELSE "panicked",
                fn |-> fn, self |-> self, system_time |-> now,
                calibrations |-> 1, request |-> prep.request,
                elapsed |-> 0, time_result |-> prep.result]
    /\ UNCHANGED <<clients, calls>>

construct(fn, self, now) == construct_sent(fn, self, now, time(self))

\* Faulty variant of new: the client is returned with the placeholder
\* offset, without calibration.
new_uncalibrated ==
    /\ ctor.pc = "none"
    /\ ctor' = [NoCtor EXCEPT !.pc = "returned", !.fn = "new"]
    /\ clients' = <<Client(None, None, 0)>>
    /\ UNCHANGED calls

new == \E now \in LocalTimes : construct("new", Client(None, None, 0), now)

default == \E now \in LocalTimes : construct("default", Client(None, None, 0), now)

\* Faulty variant of new_with_auth: the secret key is not stored.
new_with_auth_key_only ==
    \E api_key \in ApiKeys, secret_key \in SecretKeys, now \in LocalTimes :
        construct("new_with_auth", Client(Some(api_key), None, 0), now)

new_with_auth ==
    \E api_key \in ApiKeys, secret_key \in SecretKeys, now \in LocalTimes :
        construct("new_with_auth", Client(Some(api_key), Some(secret_key), 0), now)

\* The time() call of the constructor returns: expect panics on an error,
\* otherwise the offset is stored and the client is returned to the caller.
construct_done(elapsed, time_result, calibrated) ==
    IF calibrated.panic
    THEN /\ ctor' = [ctor EXCEPT !.pc = "panicked", !.elapsed = elapsed,
                                 !.time_result = time_result]
         /\ UNCHANGED clients
    ELSE /\ ctor' = [ctor EXCEPT !.pc = "returned", !.elapsed = elapsed,
                                 !.time_result = time_result,
                                 !.self.timestamp_offset = calibrated.offset]
         /\ clients' = <<[ctor.self EXCEPT !.timestamp_offset = calibrated.offset]>>

construct_timed(elapsed, time_result) ==
    construct_done(elapsed, time_result,
                   timestamp_offset(ctor.system_time, time_result, elapsed))

construct_return(replies) ==
    /\ ctor.pc = "time"
    /\ \E reply \in replies, elapsed \in 0..MaxElapsed :
          construct_timed(elapsed, execute_reply("Time", reply))
    /\ UNCHANGED calls

\* #[derive(Clone)]: every field is copied.
clone ==
    /\ Len(clients) >= 1
    /\ Len(clients) < 1 + MaxClones
    /\ \E c \in 1..Len(clients) : clients' = Append(clients, clients[c])
    /\ UNCHANGED <<ctor, calls>>

\* A caller enters an endpoint method on a client it holds; the method runs
\* until it returns an error or hands its request to the transport.
Begun(ep, c, args, self, prep) ==
    [pc |-> IF prep.issued THEN "sent" ELSE "done",
     ep |-> ep, c |-> c, args |-> args, seen |-> self,
     exec |-> prep.exec, T |-> prep.T, request |-> prep.request,
     reply |-> NoReply, result |-> prep.result]

call_begin(t, eps) ==
    /\ calls[t].pc = "idle"
    /\ \E c \in 1..Len(clients), ep \in eps :
          \E args \in ArgsOf(ep) :
              calls' = [calls EXCEPT ![t] =
                           Begun(ep, c, args, clients[c], Invoke(ep, clients[c], args))]
    /\ UNCHANGED <<ctor, clients>>

\* Faulty variant of call_reply: an API error makes the call store a new
\* offset in the client it was called on.
call_reply_recalibrating(t, replies) ==
    /\ calls[t].pc = "sent"
    /\ \E reply \in replies :
          /\ calls' = [calls EXCEPT ![t].pc = "done", ![t].reply = reply,
                          ![t].result = IF calls[t].exec = "execute"
                                        THEN execute_reply(calls[t].T, reply)
                                        ELSE execute_signed_reply(calls[t].T, reply)]
          /\ clients' = IF execute_reply(calls[t].T, reply).tag = "ResponseError"
                        THEN [clients EXCEPT ![calls[t].c].timestamp_offset = @ + 1]
                        ELSE clients
    /\ UNCHANGED ctor

\* The transport answers and the executor the call is in finishes.
call_reply(t, replies) ==
    /\ calls[t].pc = "sent"
    /\ \E reply \in replies :
          calls' = [calls EXCEPT ![t].pc = "done", ![t].reply = reply,
                       ![t].result = IF calls[t].exec = "execute"
                                     THEN execute_reply(calls[t].T, reply)
                                     ELSE execute_signed_reply(calls[t].T, reply)]
    /\ UNCHANGED <<ctor, clients>>

\* The caller takes the result; its thread is free for the next call.
call_return(t) ==
    /\ calls[t].pc = "done"
    /\ calls' = [calls EXCEPT ![t] = Idle]
    /\ UNCHANGED <<ctor, clients>>

Next ==
    \/ new
    \/ default
    \/ new_with_auth
    \/ construct_return(Replies)
    \/ clone
    \/ \E t \in DOMAIN calls : call_begin(t, Endpoints)
    \/ \E t \in DOMAIN calls : call_reply(t, Replies)
    \/ \E t \in DOMAIN calls : call_return(t)

Spec == Init /\ [][Next]_vars

\* The same client shared by NThreads callers, on a shorter menu of
\* endpoints and replies.
NextShared ==
    \/ new
    \/ new_with_auth
    \/ construct_return(SharedReplies)
    \/ \E t \in DOMAIN calls : call_begin(t, SharedEndpoints)
    \/ \E t \in DOMAIN calls : call_reply(t, SharedReplies)
    \/ \E t \in DOMAIN calls : call_return(t)

SpecShared == InitShared /\ [][NextShared]_vars

\* Any value of the struct type, as code inside the module can build it with
\* a struct literal; the public constructors produce only some of them.
StructOffsets == {-1001, 2000}

InitStruct ==
    /\ ctor = [NoCtor EXCEPT !.pc = "literal"]
    /\ \E api_key \in {None} \cup {Some(k) : k \in ApiKeys},
          secret_key \in {None} \cup {Some(k) : k \in SecretKeys},
          offset \in StructOffsets :
          clients = <<Client(api_key, secret_key, offset)>>
    /\ calls = [t \in 1..1 |-> Idle]

NextStruct ==
    \/ clone
    \/ \E t \in DOMAIN calls : call_begin(t, Endpoints)
    \/ \E t \in DOMAIN calls : call_reply(t, Replies)
    \/ \E t \in DOMAIN calls : call_return(t)

SpecStruct == InitStruct /\ [][NextStruct]_vars

(***************************************************************************)
(* Properties.                                                             *)
(***************************************************************************)
Threads == DOMAIN calls

Active(t) == calls[t].pc # "idle"

Done(t) == calls[t].pc = "done"

HasSent(t) == Active(t) /\ Len(calls[t].request) = 1

SentRequest(t) == calls[t].request[1]

SentQuery(t) == Unwrap(SentRequest(t).url.query)

\* The sent query string before its last "&signature=", and what follows it.
SignedPart(q) == Take(q, FindLast(q, "&signature=") - 1)

SignatureOf(q) == Drop(q, FindLast(q, "&signature=") + Len("&signature=") - 1)

LastOf(parts) == parts[Len(parts)]

HasField(parts, key) == \E i \in 1..Len(parts) : StartsWith(parts[i], key \o "=")

FieldOf(parts, key) ==
    Drop(parts[CHOOSE i \in 1..Len(parts) : StartsWith(parts[i], key \o "=")], Len(key) + 1)

HasTimestamp(q) == HasField(Split(q, "&"), "timestamp")

TimestampOf(q) == ParseInt(FieldOf(Split(q, "&"), "timestamp"))

IsLowerHex64(s) ==
    /\ Len(s) = 64
    /\ \A i \in 1..Len(s) : Find("0123456789abcdef", Char(s, i)) > 0

\* C1: a signed endpoint method called on a client that lacks the API key,
\* the secret key or both returns AuthorizationKeysMissing, and the call
\* hands no request to the transport and receives no reply.
C1_MissingCredentialsFailBeforeIO ==
    \A t \in Threads :
        (/\ Active(t)
         /\ calls[t].ep \in SignedEndpoints
         /\ (~IsSome(clients[calls[t].c].api_key) \/ ~IsSome(clients[calls[t].c].secret_key)))
        => /\ Done(t)
           /\ calls[t].result.tag = "AuthorizationKeysMissing"
           /\ calls[t].request = <<>>
           /\ calls[t].reply = NoReply

\* A signed method has returned on a client that holds a secret key but no API key.
C1_Witness ==
    \E t \in Threads :
        /\ Done(t)
        /\ calls[t].ep = "order_post"
        /\ IsSome(clients[calls[t].c].secret_key)
        /\ ~IsSome(clients[calls[t].c].api_key)
        /\ calls[t].result.tag = "AuthorizationKeysMissing"

\* The method and path section 6 of the specification lists for each endpoint.
ListedMethod(ep) ==
    CASE ep \in {"open_orders_delete", "order_delete"} -> "DELETE"
      [] ep \in {"order_post", "order_post_test"}      -> "POST"
      [] OTHER                                         -> "GET"

ListedPath(ep) ==
    CASE ep = "ping"               -> "/api/v3/ping"
      [] ep = "time"               -> "/api/v3/time"
      [] ep = "exchange_info"      -> "/api/v3/exchangeInfo"
      [] ep = "klines"             -> "/api/v3/klines"
      [] ep = "depth"              -> "/api/v3/depth"
      [] ep = "depth_ticker"       -> "/api/v3/ticker/bookTicker"
      [] ep = "account_get"        -> "/api/v3/account"
      [] ep = "open_orders_get"    -> "/api/v3/openOrders"
      [] ep = "open_orders_delete" -> "/api/v3/openOrders"
      [] ep = "order_get"          -> "/api/v3/order"
      [] ep = "order_post"         -> "/api/v3/order"
      [] ep = "order_delete"       -> "/api/v3/order"
      [] ep = "order_post_test"    -> "/api/v3/order/test"

\* C2: every request an endpoint method sends carries the method listed for
\* the endpoint and goes to host api.binance.com with the listed path, which
\* starts with /api/v3/.
C2_RequestsUseListedMethodAndUrl ==
    \A t \in Threads :
        (HasSent(t) /\ calls[t].ep \in UnsignedEndpoints \cup SignedEndpoints)
        => /\ SentRequest(t).method = ListedMethod(calls[t].ep)
           /\ SentRequest(t).url.host = "api.binance.com"
           /\ SentRequest(t).url.path = ListedPath(calls[t].ep)
           /\ StartsWith(SentRequest(t).url.path, "/api/v3/")

\* C3: on an authenticated client, the query a signed method sends has its
\* timestamp field equal to the request's timestamp minus the client's
\* offset, ends with signature=<64 lowercase hex characters> as its last
\* parameter, and that signature is the signer's output, under the secret
\* key, for the query string that precedes "&signature=".
C3_SignedQueryIsCorrectedAndSigned ==
    \A t \in Threads :
        (HasSent(t) /\ calls[t].ep \in SignedEndpoints)
        => /\ IsSome(SentRequest(t).url.query)
           /\ FindLast(SentQuery(t), "&signature=") > 0
           /\ HasTimestamp(SignedPart(SentQuery(t)))
           /\ TimestampOf(SignedPart(SentQuery(t)))
                = calls[t].args.timestamp - clients[calls[t].c].timestamp_offset
           /\ LastOf(Split(SentQuery(t), "&")) = "signature=" \o SignatureOf(SentQuery(t))
           /\ IsLowerHex64(SignatureOf(SentQuery(t)))
           /\ SignatureOf(SentQuery(t))
                = signature(SignedPart(SentQuery(t)), Unwrap(clients[calls[t].c].secret_key))

\* order_post has sent a request whose timestamp differs from the caller's.
C3_Witness ==
    \E t \in Threads :
        /\ HasSent(t)
        /\ calls[t].ep = "order_post"
        /\ calls[t].args.timestamp = 5003
        /\ TimestampOf(SignedPart(SentQuery(t))) = 3003
        /\ IsLowerHex64(SignatureOf(SentQuery(t)))

\* Integer division by two, truncating toward zero.
Half(d) == IF d >= 0 THEN d \div 2 ELSE 0 - ((0 - d) \div 2)

\* The server time reported to the constructor, and the measured round trip.
ReportedServerTime == ctor.time_result.value.server_time

\* C4: the offset stored in a constructed client is
\* (T_local_start - (T_server - D/2)) + 1000, and a signed request whose
\* timestamp is T_local_start is sent with timestamp (T_server - D/2) - 1000.
C4_OffsetFormula ==
    ctor.pc = "returned"
    => /\ \A c \in 1..Len(clients) :
            clients[c].timestamp_offset
              = (ctor.system_time - (ReportedServerTime - Half(ctor.elapsed))) + 1000
       /\ \A t \in Threads :
            (/\ HasSent(t)
             /\ calls[t].ep \in SignedEndpoints
             /\ calls[t].args.timestamp = ctor.system_time)
            => TimestampOf(SignedPart(SentQuery(t)))
                 = (ReportedServerTime - Half(ctor.elapsed)) - 1000

\* Calibrated with an odd round trip, then a signed request stamped with
\* the local time at calibration start was sent.
C4_Witness ==
    /\ ctor.pc = "returned"
    /\ ctor.elapsed = 1
    /\ ReportedServerTime = 7001
    /\ \E t \in Threads :
          /\ HasSent(t)
          /\ calls[t].ep = "account_get"
          /\ calls[t].args.timestamp = ctor.system_time
          /\ TimestampOf(SignedPart(SentQuery(t))) = 6001

\* C5: on every construction path the calibration has run exactly once and
\* sent exactly one request, an unauthenticated GET /api/v3/time, before
\* the caller holds a client; every endpoint call runs on a client that
\* carries the calibrated offset, and nothing calibrates again afterwards.
C5_CalibratedOnceBeforeUse ==
    /\ (clients # <<>> \/ \E t \in Threads : Active(t))
       => /\ ctor.pc = "returned"
          /\ ctor.fn \in {"new", "default", "new_with_auth"}
          /\ ctor.calibrations = 1
          /\ Len(ctor.request) = 1
          /\ ctor.request[1].method = "GET"
          /\ ctor.request[1].url.host = "api.binance.com"
          /\ ctor.request[1].url.path = "/api/v3/time"
          /\ ctor.request[1].api_key = None
          /\ ctor.time_result.tag = "Ok"
    /\ \A t \in Threads :
          Active(t) => calls[t].seen.timestamp_offset = ctor.self.timestamp_offset
    /\ ctor.pc \in {"time", "panicked"} => ctor.self.timestamp_offset = 0

\* A client built by new_with_auth is in use by an endpoint call, with an
\* offset that is not the placeholder.
C5_Witness ==
    /\ ctor.pc = "returned"
    /\ ctor.fn = "new_with_auth"
    /\ \E t \in Threads :
          Active(t) /\ calls[t].seen.timestamp_offset = 2000

\* C6: when the server-time call of the constructor fails in any way, the
\* constructor panics: the caller holds no client and runs no call, and the
\* time request was sent at most once; a client is only ever held after a
\* server-time call that succeeded.
C6_FailedCalibrationIsFatal ==
    /\ (ctor.pc \in {"returned", "panicked"} /\ ctor.time_result.tag # "Ok")
       => /\ ctor.pc = "panicked"
          /\ clients = <<>>
          /\ \A t \in Threads : ~Active(t)
          /\ Len(ctor.request) <= 1
          /\ ctor.calibrations = 1
    /\ clients # <<>> => ctor.time_result.tag = "Ok"

\* The constructor has panicked on an API error envelope.
C6_Witness ==
    /\ ctor.pc = "panicked"
    /\ ctor.time_result.tag = "ResponseError"
    /\ clients = <<>>

\* C7: whatever calls are in progress or have finished on the shared
\* client, the client still has the offset and keys the constructor gave
\* it, every call saw exactly these, and the request of every call is the
\* one the call produces from the client and its arguments alone.
C7_CallsLeaveClientUnchanged ==
    /\ \A c \in 1..Len(clients) : clients[c] = ctor.self
    /\ \A t \in Threads :
          Active(t)
          => /\ calls[t].seen = clients[calls[t].c]
             /\ calls[t].request
                  = Invoke(calls[t].ep, clients[calls[t].c], calls[t].args).request

\* Two calls are in flight at once on an authenticated client, and a third
\* party's view of the client is unchanged.
C7_Witness ==
    /\ Cardinality(Threads) >= 2
    /\ \E t1, t2 \in Threads :
          /\ t1 # t2
          /\ calls[t1].pc = "done" /\ calls[t1].ep = "account_get"
          /\ calls[t1].result.tag = "ResponseError"
          /\ calls[t2].pc = "sent" /\ calls[t2].ep = "order_post"

\* What each body text of the model is for each payload type: the success
\* shape of the type ("Ok"), the error shape ("Error") or neither ("Parse").
ExpectedArm(T, body) ==
    CASE body = "{}"                        -> IF T = "Unit" THEN "Ok" ELSE "Parse"
      [] body = "[]"                        -> IF T = "List" THEN "Ok" ELSE "Parse"
      [] body = "{\"serverTime\":4000}"     -> IF T = "Time" THEN "Ok" ELSE "Parse"
      [] body = "{\"serverTime\":7001}"     -> IF T = "Time" THEN "Ok" ELSE "Parse"
      [] body = "{\"symbol\":\"BTC\"}"      -> IF T = "Object" THEN "Ok" ELSE "Parse"
      [] body = "{\"code\":-1,\"msg\":\"boom\"}" -> "Error"
      [] body = "{\"symbol\":\"BTC\",\"code\":-1021,\"msg\":\"late\"}"
                                            -> IF T = "Object" THEN "Ok" ELSE "Error"
      [] OTHER                              -> "Parse"

ExpectedCode(body) == IF body = "{\"code\":-1,\"msg\":\"boom\"}" THEN -1 ELSE -1021

ExpectedMsg(body) == IF body = "{\"code\":-1,\"msg\":\"boom\"}" THEN "boom" ELSE "late"

\* C8: for execute and execute_signed, whatever the HTTP status, a body of
\* the endpoint's success shape gives Ok with the typed payload (also when
\* it has the error fields too: the success shape is tried first), a body
\* of the error shape gives ResponseError with its code and message, and any
\* other body gives ResponseParsing with the raw body text.
C8_EnvelopeDecoding ==
    \A t \in Threads :
        (Done(t) /\ calls[t].reply.fault = "none")
        => CASE ExpectedArm(calls[t].T, calls[t].reply.body) = "Ok" ->
                  /\ calls[t].result.tag = "Ok"
                  /\ calls[t].result.value.type = calls[t].T
             [] ExpectedArm(calls[t].T, calls[t].reply.body) = "Error" ->
                  /\ calls[t].result.tag = "ResponseError"
                  /\ calls[t].result.value.code = ExpectedCode(calls[t].reply.body)
                  /\ calls[t].result.value.msg = ExpectedMsg(calls[t].reply.body)
             [] ExpectedArm(calls[t].T, calls[t].reply.body) = "Parse" ->
                  /\ calls[t].result.tag = "ResponseParsing"
                  /\ calls[t].result.value = calls[t].reply.body

\* A signed call got status 400 with an error envelope and returned the API
\* error with the envelope's code and message.
C8_Witness ==
    \E t \in Threads :
        /\ Done(t)
        /\ calls[t].exec = "execute_signed"
        /\ calls[t].reply.status = 400
        /\ calls[t].reply.body = "{\"code\":-1,\"msg\":\"boom\"}"
        /\ calls[t].result.tag = "ResponseError"
        /\ calls[t].result.value.code = -1

\* C9: a call sends at most one request; a call that failed at a stage
\* reports that stage's error kind and ran no later stage: URL and build
\* failures send nothing, an execution failure reads no body, and a failure
\* of an earlier stage is never reported as a later one's.
C9_StagesInOrderAtMostOneRequest ==
    \A t \in Threads :
        /\ Len(calls[t].request) <= 1
        /\ Done(t) =>
            /\ calls[t].result.tag \in {"UrlParsing", "RequestBuilding", "AuthorizationKeysMissing"}
                 <=> calls[t].request = <<>>
            /\ calls[t].request = <<>> => calls[t].reply = NoReply
            /\ calls[t].result.tag = "RequestExecution" <=> calls[t].reply.fault = "exec"
            /\ calls[t].result.tag = "ResponseReading" <=> calls[t].reply.fault = "read"
            /\ calls[t].result.tag \in {"Ok", "ResponseError", "ResponseParsing"}
                 <=> calls[t].reply.fault = "none"
            /\ (calls[t].ep = "execute" /\ calls[t].args.url = ":x/api/v3/ping")
                 => calls[t].result.tag = "UrlParsing"
            /\ (/\ calls[t].ep \in SignedEndpoints
                /\ clients[calls[t].c].api_key = Some("bad\nkey")
                /\ IsSome(clients[calls[t].c].secret_key))
                 => calls[t].result.tag = "RequestBuilding"

\* A signed call failed at the request build and sent nothing.
C9_Witness ==
    \E t \in Threads :
        /\ Done(t)
        /\ calls[t].result.tag = "RequestBuilding"
        /\ calls[t].request = <<>>

\* C10: the client under construction and every client the caller holds
\* has its API key present exactly when its secret key is present.
C10_CredentialsBothOrNeither ==
    /\ ctor.pc # "none" => (IsSome(ctor.self.api_key) <=> IsSome(ctor.self.secret_key))
    /\ \A c \in 1..Len(clients) :
          IsSome(clients[c].api_key) <=> IsSome(clients[c].secret_key)

\* An authenticated client has been cloned and a call on the clone has finished.
C10_Witness ==
    /\ Len(clients) = 2
    /\ IsSome(clients[2].api_key)
    /\ IsSome(clients[2].secret_key)
    /\ \E t \in Threads : Done(t) /\ calls[t].c = 2
====
